---- MODULE Spec2Model ----
(***************************************************************************)
(* Canvas Archiver (src/main.ts): the group resolver (isNodeInGroup,       *)
(* findNodeGroup), the section merge inside archiveBlueCards, and the      *)
(* archive invocation itself with its awaited vault and view operations.   *)
(*                                                                         *)
(* Text is modelled at character level: a string is a sequence of          *)
(* one-character strings, so that split, join, startsWith, substring, trim *)
(* and replace are computed as the JavaScript computes them.               *)
(***************************************************************************)
EXTENDS Integers, Sequences, FiniteSets, TLC

VARIABLES
    viewData,       \* text held by the canvas view (getViewData / setViewData)
    hasParent,      \* canvasView.file.parent is not null
    file,           \* the vault's archive file: Absent, or its text
    pc,             \* position of each archiveBlueCards invocation
    canvasData,     \* per invocation: the parsed canvas (local canvasData)
    groupedCards,   \* per invocation: local Map groupName -> cards
    kanbanContent,  \* per invocation: the text about to be written
    io,             \* per invocation: the I/O operations performed so far
    orig,           \* the canvas data the view held initially
    mStart,         \* merge runs: the file before the first merge
    mIn,            \* merge runs: the file before the last merge
    mMap,           \* merge runs: the entries map of the last merge
    mHeaderAdded,   \* merge runs: the last merge inserted the header
    mCount,         \* merge runs: merges applied
    mPrepends,      \* merge runs: merges that inserted the header
    rNode,          \* resolver runs: the candidate
    rGroups,        \* resolver runs: the group list
    rLabel          \* resolver runs: the result, NoLabel before the call

vars == <<viewData, hasParent, file, pc, canvasData, groupedCards,
          kanbanContent, io, orig, mStart, mIn, mMap, mHeaderAdded, mCount,
          mPrepends, rNode, rGroups, rLabel>>

progVars == <<viewData, hasParent, pc, canvasData, groupedCards,
              kanbanContent, io, orig>>
mergeVars == <<mStart, mIn, mMap, mHeaderAdded, mCount, mPrepends>>
resolveVars == <<rNode, rGroups, rLabel>>

(***************************************************************************)
(* Strings                                                                 *)
(***************************************************************************)
NL == "\n"

Whitespace == {" ", "\t", "\n", "\r"}

\* String.prototype.startsWith
StartsWith(s, p) == Len(s) >= Len(p) /\ SubSeq(s, 1, Len(p)) = p

\* String.prototype.substring(n): the text from 0-based position n on
Substring(s, n) == SubSeq(s, n + 1, Len(s))

RECURSIVE TrimStart(_)
TrimStart(s) ==
    IF s # <<>> /\ Head(s) \in Whitespace THEN TrimStart(Tail(s)) ELSE s

RECURSIVE TrimEnd(_)
TrimEnd(s) ==
    IF s # <<>> /\ s[Len(s)] \in Whitespace
    THEN TrimEnd(SubSeq(s, 1, Len(s) - 1)) ELSE s

\* String.prototype.trim
Trim(s) == TrimEnd(TrimStart(s))

\* String.prototype.split('\n'): at least one piece, one more per line
\* break; piece k runs between the (k-1)th and the kth line break.
Split(s) ==
    LET breaks == { i \in DOMAIN s : s[i] = NL }
        n == Cardinality(breaks)
        rank == [i \in breaks |-> Cardinality({ j \in breaks : j <= i })]
        at == [k \in 0..(n + 1) |->
                 IF k = 0 THEN 0
                 ELSE IF k = n + 1 THEN Len(s) + 1
                 ELSE CHOOSE i \in breaks : rank[i] = k]
    IN [k \in 1..(n + 1) |-> SubSeq(s, at[k - 1] + 1, at[k] - 1)]

\* Array.prototype.join('\n')
RECURSIVE Join(_)
Join(a) ==
    IF a = <<>> THEN <<>>
    ELSE IF Len(a) = 1 THEN a[1]
    ELSE a[1] \o <<NL>> \o Join(Tail(a))

\* text.replace(/\n/g, '<br>')
RECURSIVE ReplaceBreaks(_)
ReplaceBreaks(s) ==
    IF s = <<>> THEN <<>>
    ELSE (IF Head(s) = NL THEN <<"<", "b", "r", ">">> ELSE <<Head(s)>>)
         \o ReplaceBreaks(Tail(s))

\* '---\n\nkanban-plugin: basic\n\n---\n\n'
HEADER ==
    <<"-", "-", "-", NL, NL,
      "k", "a", "n", "b", "a", "n", "-", "p", "l", "u", "g", "i", "n", ":",
      " ", "b", "a", "s", "i", "c", NL, NL,
      "-", "-", "-", NL, NL>>

\* '## '
HeadingMarker == <<"#", "#", " ">>

\* '- [ ] '
EntryMarker == <<"-", " ", "[", " ", "]", " ">>

\* `- [ ] ${card.text.replace(/\n/g, '<br>')}`
cardLine(card) == EntryMarker \o ReplaceBreaks(card.text)

RECURSIVE cardLines(_)
cardLines(cards) ==
    IF cards = <<>> THEN <<>>
    ELSE <<cardLine(Head(cards))>> \o cardLines(Tail(cards))

(***************************************************************************)
(* The Map groupedCards: entries [group, cards] in insertion order         *)
(***************************************************************************)
MapHas(m, g) == \E k \in DOMAIN m : m[k].group = g

MapGet(m, g) == m[CHOOSE k \in DOMAIN m : m[k].group = g].cards

MapDelete(m, g) == SelectSeq(m, LAMBDA e : e.group # g)

(***************************************************************************)
(* The merge of archiveBlueCards                                           *)
(***************************************************************************)
\* No archive file in the vault (getAbstractFileByPath finds no TFile): a
\* value that is no text, since every element of a text is one character.
Absent == <<"no file">>

\* Mutant of withHeader: the startsWith test left out.
withHeaderUnchecked(existing) ==
    IF existing # Absent THEN HEADER \o existing ELSE HEADER

\* The text the merge starts from: the header is put in front of a file that
\* does not begin with it, and stands alone when there is no file.
withHeader(existing) ==
    IF existing # Absent
    THEN IF ~StartsWith(existing, HEADER) THEN HEADER \o existing ELSE existing
    ELSE HEADER

\* Mutant of Splice: a delete count of 1 instead of 0.
SpliceOverwriting(a, start, items) ==
    SubSeq(a, 1, start) \o items \o SubSeq(a, start + 2, Len(a))

\* contentLines.splice(start, 0, ...items)
Splice(a, start, items) ==
    SubSeq(a, 1, start) \o items \o SubSeq(a, start + 1, Len(a))

\* One call of the forEach callback, on the element at 0-based `index`.
\* st = [lines, currentGroup, insertIndex, map]
scanLine(st, index) ==
    LET line == st.lines[index + 1] IN
    IF StartsWith(line, HeadingMarker)
    THEN LET g == Trim(Substring(line, 3)) IN
         [st EXCEPT !.currentGroup = g,
                    !.insertIndex = IF MapHas(st.map, g) THEN index ELSE @]
    ELSE IF StartsWith(line, HeadingMarker) \/ index = Len(st.lines) - 1
    THEN IF st.insertIndex # -1 /\ MapHas(st.map, st.currentGroup)
         THEN [lines |-> Splice(st.lines, st.insertIndex + 1,
                                cardLines(MapGet(st.map, st.currentGroup))),
               currentGroup |-> <<>>,
               insertIndex |-> -1,
               map |-> MapDelete(st.map, st.currentGroup)]
         ELSE [st EXCEPT !.currentGroup = <<>>]
    ELSE st

\* contentLines.forEach: the indices below the length the array had when the
\* loop began, each read when it is visited.
RECURSIVE scanFrom(_, _, _)
scanFrom(st, index, len) ==
    IF index >= len \/ index >= Len(st.lines) THEN st
    ELSE scanFrom(scanLine(st, index), index + 1, len)

\* Mutant of appendGroups: the heading pushed without its leading line break.
RECURSIVE appendGroupsNoBlank(_, _)
appendGroupsNoBlank(lines, m) ==
    IF m = <<>> THEN lines
    ELSE appendGroupsNoBlank(
            Append(lines, HeadingMarker \o Head(m).group \o <<NL>>)
                \o cardLines(Head(m).cards),
            Tail(m))

\* for (const [group, cards] of groupedCards) { push heading; push cards }
RECURSIVE appendGroups(_, _)
appendGroups(lines, m) ==
    IF m = <<>> THEN lines
    ELSE appendGroups(
            Append(lines, <<NL>> \o HeadingMarker \o Head(m).group \o <<NL>>)
                \o cardLines(Head(m).cards),
            Tail(m))

\* The scan over the split text, before the remaining groups are appended.
scanned(content, m) ==
    LET lines == Split(content) IN
    scanFrom([lines |-> lines, currentGroup |-> <<>>, insertIndex |-> -1,
              map |-> m], 0, Len(lines))

\* The text archiveBlueCards writes for the file `existing` and the map m.
mergeContent(existing, m) ==
    LET st == scanned(withHeader(existing), m) IN
    Join(appendGroups(st.lines, st.map))

(***************************************************************************)
(* Inputs of the merge runs                                                *)
(***************************************************************************)
MaxDocLines == 3
MaxMerges == 3

\* Sequences of distinct elements of S, of lengths lo..hi
DistinctSeqs(S, lo, hi) ==
    { s \in UNION { [1..k -> S] : k \in lo..hi } :
        \A i, j \in DOMAIN s : i # j => s[i] # s[j] }

Seqs(S, lo, hi) == UNION { [1..k -> S] : k \in lo..hi }

GroupNames == { <<"A">>, <<"B">> }

CardTexts == { <<"a">>, <<"b", NL, "c">> }

\* A heading, a heading with trailing white space, a body line, a blank line
BodyLines ==
    { <<"#", "#", " ", "A">>, <<"#", "#", " ", "B", " ">>, <<"x">>, <<>> }

Bodies == { Join(ls) : ls \in Seqs(BodyLines, 0, MaxDocLines) }

Documents == {Absent} \cup Bodies \cup { HEADER \o b : b \in Bodies }

EntryLists ==
    DistinctSeqs({ [text |-> t] : t \in CardTexts }, 1, Cardinality(CardTexts))

\* Non-empty maps: distinct group names in insertion order, each with cards
EntryMaps ==
    UNION { { [k \in DOMAIN gs |-> [group |-> gs[k], cards |-> es[k]]] :
                es \in [DOMAIN gs -> EntryLists] } :
            gs \in DistinctSeqs(GroupNames, 1, Cardinality(GroupNames)) }

\* Maps with one fixed card per group, for runs of several merges
OneCardMaps ==
    { [k \in DOMAIN gs |-> [group |-> gs[k], cards |-> <<[text |-> <<"a">>]>>]] :
        gs \in DistinctSeqs(GroupNames, 1, Cardinality(GroupNames)) }

StartDocuments == { Absent, <<>>, <<"x">>, HEADER \o <<"x">> }

(***************************************************************************)
(* Merge runs: the merge applied to a file                                 *)
(***************************************************************************)
IdleProgram ==
    /\ viewData = "none" /\ hasParent = TRUE /\ pc = <<>>
    /\ canvasData = <<>> /\ groupedCards = <<>> /\ kanbanContent = <<>>
    /\ io = <<>> /\ orig = "none"

IdleMerge ==
    /\ mStart = Absent /\ mIn = Absent /\ mMap = <<>> /\ mHeaderAdded = FALSE
    /\ mCount = 0 /\ mPrepends = 0

IdleResolve == rNode = "none" /\ rGroups = <<>> /\ rLabel = <<"no label">>

\* One merge of the map m into the file, with what it did recorded.
Merge(m) ==
    LET added == file = Absent \/ withHeader(file) # file IN
    /\ file' = mergeContent(file, m)
    /\ mIn' = file
    /\ mMap' = m
    /\ mHeaderAdded' = added
    /\ mCount' = mCount + 1
    /\ mPrepends' = mPrepends + (IF added THEN 1 ELSE 0)
    /\ UNCHANGED <<mStart, progVars, resolveVars>>

MergeOnce == mCount = 0 /\ \E m \in EntryMaps : Merge(m)

MergeAgain == mCount < MaxMerges /\ \E m \in OneCardMaps : Merge(m)

InitMerge ==
    /\ file \in Documents
    /\ mStart = file /\ mIn = Absent /\ mMap = <<>> /\ mHeaderAdded = FALSE
    /\ mCount = 0 /\ mPrepends = 0
    /\ IdleProgram /\ IdleResolve

InitMergeSeq ==
    /\ file \in StartDocuments
    /\ mStart = file /\ mIn = Absent /\ mMap = <<>> /\ mHeaderAdded = FALSE
    /\ mCount = 0 /\ mPrepends = 0
    /\ IdleProgram /\ IdleResolve

SpecMerge == InitMerge /\ [][MergeOnce]_vars

SpecMergeSeq == InitMergeSeq /\ [][MergeAgain]_vars

(***************************************************************************)
(* The group resolver                                                      *)
(***************************************************************************)
\* 'Uncategorized'
Uncategorized ==
    <<"U", "n", "c", "a", "t", "e", "g", "o", "r", "i", "z", "e", "d">>

isNodeInGroup(node, group) ==
    /\ node.x >= group.x
    /\ node.x + node.width <= group.x + group.width
    /\ node.y >= group.y
    /\ node.y + node.height <= group.y + group.height

\* matchingGroups.reduce((smallest, current) => ...) with no initial value:
\* the first element starts as the accumulator.
RECURSIVE reduceSmallest(_, _)
reduceSmallest(smallest, rest) ==
    IF rest = <<>> THEN smallest
    ELSE LET current == Head(rest)
             currentArea == current.width * current.height
             smallestArea == smallest.width * smallest.height
         IN reduceSmallest(IF currentArea < smallestArea THEN current ELSE smallest,
                           Tail(rest))

\* Mutant of findNodeGroup: the first containing group wins, whatever its area.
findNodeGroupFirstMatch(node, groups) ==
    LET matchingGroups == SelectSeq(groups, LAMBDA g : isNodeInGroup(node, g)) IN
    IF Len(matchingGroups) = 0 THEN Uncategorized
    ELSE matchingGroups[1].label

findNodeGroup(node, groups) ==
    LET matchingGroups == SelectSeq(groups, LAMBDA g : isNodeInGroup(node, g)) IN
    IF Len(matchingGroups) = 0 THEN Uncategorized
    ELSE reduceSmallest(Head(matchingGroups), Tail(matchingGroups)).label

(***************************************************************************)
(* Resolver runs: findNodeGroup applied to a candidate and a group list    *)
(***************************************************************************)
MaxGroups == 2

NoLabel == <<"no label">>

Candidates ==
    { [x |-> x, y |-> y, width |-> w, height |-> h] :
        x \in {0, 1}, y \in {0, 1}, w \in {0, 1}, h \in {0, 1} }

GroupRegions ==
    { [x |-> x, y |-> 0, width |-> w, height |-> h, label |-> l] :
        x \in {0, 1}, w \in {0, 1, 2}, h \in {1, 2}, l \in GroupNames }

InitResolve ==
    /\ rNode \in Candidates
    /\ rGroups \in Seqs(GroupRegions, 0, MaxGroups)
    /\ rLabel = NoLabel
    /\ file = Absent /\ IdleProgram /\ IdleMerge

Resolve ==
    /\ rLabel = NoLabel
    /\ rLabel' = findNodeGroup(rNode, rGroups)
    /\ UNCHANGED <<rNode, rGroups, file, progVars, mergeVars>>

SpecResolve == InitResolve /\ [][Resolve]_vars

(***************************************************************************)
(* The archive invocation: archiveBlueCards                                *)
(***************************************************************************)
\* JSON.parse of the view's text: it throws on text that is no JSON, and
\* drops the layout of the text.
Parsable(text) == text.valid

Parse(text) == text.data

\* JSON.stringify with no indent argument: the compact layout
Stringify(data) == [valid |-> TRUE, layout |-> "compact", data |-> data]

\* canvasData.nodes.filter(node => node.type === 'group')
groupNodesOf(data) == SelectSeq(data.nodes, LAMBDA n : n.type = "group")

\* canvasData.nodes.filter(node => node.type === 'text' && node.color === '6')
blueCardsOf(data) ==
    SelectSeq(data.nodes, LAMBDA n : n.type = "text" /\ n.color = "6")

\* blueCards.forEach(card => { ...groupedCards.get(groupName).push(card) })
RECURSIVE groupCards(_, _, _)
groupCards(cards, groups, m) ==
    IF cards = <<>> THEN m
    ELSE LET card == Head(cards)
             groupName == findNodeGroup(card, groups)
             m1 == IF MapHas(m, groupName) THEN m
                   ELSE Append(m, [group |-> groupName, cards |-> <<>>])
             m2 == [k \in DOMAIN m1 |->
                      IF m1[k].group = groupName
                      THEN [m1[k] EXCEPT !.cards = Append(@, card)]
                      ELSE m1[k]]
         IN groupCards(Tail(cards), groups, m2)

\* Mutant of updatedNodesOf: the filter tests the colour alone.
updatedNodesByColour(data) == SelectSeq(data.nodes, LAMBDA n : ~(n.color = "6"))

\* canvasData.nodes.filter(node => !(node.type === 'text' && node.color === '6'))
updatedNodesOf(data) ==
    SelectSeq(data.nodes, LAMBDA n : ~(n.type = "text" /\ n.color = "6"))

\* Mutant of earlyExit: the parent folder is not looked at.
earlyExitNoParentCheck(text, parent) ==
    IF ~Parsable(text) THEN "parseError"
    ELSE IF Len(blueCardsOf(Parse(text))) = 0 THEN "noCards"
    ELSE "none"

\* The ways archiveBlueCards ends before its first await: JSON.parse throws,
\* no blue card, no parent folder ("none": it goes on).
earlyExit(text, parent) ==
    IF ~Parsable(text) THEN "parseError"
    ELSE IF Len(blueCardsOf(Parse(text))) = 0 THEN "noCards"
    ELSE IF ~parent THEN "noParent"
    ELSE "none"

NumCalls == 2
MaxNodes == 2

Calls == 1..NumCalls

EarlyExits == {"parseError", "noCards", "noParent"}

Did(i, op, ok) == io' = [io EXCEPT ![i] = Append(@, [op |-> op, ok |-> ok])]

\* The call up to its first await: the canvas is read and parsed, the cards
\* are grouped, and either the existing file's read or, with no file, the
\* creation of the merged text is awaited.
Start(i) ==
    /\ pc[i] = "idle"
    /\ LET exit == earlyExit(viewData, hasParent) IN
       \/ /\ exit # "none"
          /\ pc' = [pc EXCEPT ![i] = exit]
          /\ Did(i, "getViewData", Parsable(viewData))
          /\ UNCHANGED <<canvasData, groupedCards, kanbanContent>>
       \/ /\ exit = "none"
          /\ LET data == Parse(viewData)
                 grouped == groupCards(blueCardsOf(data), groupNodesOf(data), <<>>)
             IN /\ canvasData' = [canvasData EXCEPT ![i] = data]
                /\ groupedCards' = [groupedCards EXCEPT ![i] = grouped]
                /\ Did(i, "getViewData", TRUE)
                /\ IF file # Absent
                   THEN /\ pc' = [pc EXCEPT ![i] = "reading"]
                        /\ UNCHANGED kanbanContent
                   ELSE /\ pc' = [pc EXCEPT ![i] = "creating"]
                        /\ kanbanContent' =
                              [kanbanContent EXCEPT ![i] = mergeContent(Absent, grouped)]
    /\ UNCHANGED <<viewData, hasParent, file, orig, mergeVars, resolveVars>>

\* await this.app.vault.read(existingFile) settles; on success the text is
\* merged and vault.modify is called.
ReadDone(i) ==
    /\ pc[i] = "reading"
    /\ \/ /\ kanbanContent' =
                [kanbanContent EXCEPT ![i] = mergeContent(file, groupedCards[i])]
          /\ pc' = [pc EXCEPT ![i] = "modifying"]
          /\ Did(i, "read", TRUE)
       \/ /\ pc' = [pc EXCEPT ![i] = "ioError"]
          /\ Did(i, "read", FALSE)
          /\ UNCHANGED kanbanContent
    /\ UNCHANGED <<viewData, hasParent, file, canvasData, groupedCards, orig,
                   mergeVars, resolveVars>>

\* Mutant of ModifyDone: a rejected write does not stop the call.
ModifyDoneUncaught(i) ==
    /\ pc[i] = "modifying"
    /\ \/ /\ file' = kanbanContent[i]
          /\ Did(i, "modify", TRUE)
       \/ /\ Did(i, "modify", FALSE)
          /\ UNCHANGED file
    /\ pc' = [pc EXCEPT ![i] = "settingView"]
    /\ UNCHANGED <<viewData, hasParent, canvasData, groupedCards, kanbanContent,
                   orig, mergeVars, resolveVars>>

\* await this.app.vault.modify(existingFile, kanbanContent) settles.
ModifyDone(i) ==
    /\ pc[i] = "modifying"
    /\ \/ /\ file' = kanbanContent[i]
          /\ pc' = [pc EXCEPT ![i] = "settingView"]
          /\ Did(i, "modify", TRUE)
       \/ /\ pc' = [pc EXCEPT ![i] = "ioError"]
          /\ Did(i, "modify", FALSE)
          /\ UNCHANGED file
    /\ UNCHANGED <<viewData, hasParent, canvasData, groupedCards, kanbanContent,
                   orig, mergeVars, resolveVars>>

\* await this.app.vault.create(filePath, kanbanContent) settles: it rejects
\* when a file has appeared at the path meanwhile.
CreateDone(i) ==
    /\ pc[i] = "creating"
    /\ \/ /\ file = Absent
          /\ file' = kanbanContent[i]
          /\ pc' = [pc EXCEPT ![i] = "settingView"]
          /\ Did(i, "create", TRUE)
       \/ /\ pc' = [pc EXCEPT ![i] = "ioError"]
          /\ Did(i, "create", FALSE)
          /\ UNCHANGED file
    /\ UNCHANGED <<viewData, hasParent, canvasData, groupedCards, kanbanContent,
                   orig, mergeVars, resolveVars>>

\* await canvasView.setViewData(JSON.stringify(updatedCanvasData), false)
\* settles.
SetViewDone(i) ==
    /\ pc[i] = "settingView"
    /\ \/ /\ viewData' = Stringify([canvasData[i] EXCEPT
                                       !.nodes = updatedNodesOf(canvasData[i])])
          /\ pc' = [pc EXCEPT ![i] = "archived"]
          /\ Did(i, "setViewData", TRUE)
       \/ /\ pc' = [pc EXCEPT ![i] = "ioError"]
          /\ Did(i, "setViewData", FALSE)
          /\ UNCHANGED viewData
    /\ UNCHANGED <<hasParent, file, canvasData, groupedCards, kanbanContent,
                   orig, mergeVars, resolveVars>>

(***************************************************************************)
(* Canvases and files the archive runs start from                          *)
(***************************************************************************)
TextA == <<"a">>
TextBC == <<"b", NL, "c">>

Node(id, type, x, y, w, h, text, color, label) ==
    [id |-> id, type |-> type, x |-> x, y |-> y, width |-> w, height |-> h,
     text |-> text, color |-> color, label |-> label]

\* A group of colour '6', a blue card inside it, a blue card outside every
\* group, and a card of another colour.
NodePalette ==
    { Node("g2", "group", 0, 0, 2, 2, <<>>, "6", <<"B">>),
      Node("c1", "text", 1, 1, 1, 1, TextA, "6", <<>>),
      Node("c2", "text", 5, 5, 1, 1, TextBC, "6", <<>>),
      Node("c3", "text", 1, 1, 1, 1, <<"n">>, "1", <<>>) }

CanvasTexts ==
    { [valid |-> FALSE, layout |-> "none", data |-> [nodes |-> <<>>, edges |-> <<>>, metadata |-> "none"]] }
    \cup { [valid |-> TRUE, layout |-> "tabs",
            data |-> [nodes |-> ns, edges |-> <<"e1">>, metadata |-> "m1"]] :
           ns \in DistinctSeqs(NodePalette, 0, MaxNodes) }

\* No file, and a file with a section of its own
ArchiveFiles ==
    { Absent,
      HEADER \o <<"#", "#", " ", "B", NL, "-", " ", "[", " ", "]", " ", "o">> }

Init ==
    /\ viewData \in CanvasTexts
    /\ hasParent \in BOOLEAN
    /\ file \in ArchiveFiles
    /\ pc = [i \in Calls |-> "idle"]
    /\ canvasData = [i \in Calls |-> "none"]
    /\ groupedCards = [i \in Calls |-> <<>>]
    /\ kanbanContent = [i \in Calls |-> <<>>]
    /\ io = [i \in Calls |-> <<>>]
    /\ orig = viewData.data
    /\ IdleMerge /\ IdleResolve

Next ==
    \E i \in Calls :
        \/ Start(i)
        \/ ReadDone(i)
        \/ ModifyDone(i)
        \/ CreateDone(i)
        \/ SetViewDone(i)

Spec == Init /\ [][Next]_vars

(***************************************************************************)
(* Vocabulary of the claims about the merge                                *)
(***************************************************************************)
\* The document the section processing starts from, as the specification
\* states the header precondition.
Headed(d) ==
    IF d = Absent THEN HEADER
    ELSE IF StartsWith(d, HEADER) THEN d ELSE HEADER \o d

IsHeading(line) == StartsWith(line, HeadingMarker)

SectionName(line) == Trim(Substring(line, 3))

HasHeading(lines, g) ==
    \E i \in DOMAIN lines : IsHeading(lines[i]) /\ SectionName(lines[i]) = g

EntryLine(text) == EntryMarker \o ReplaceBreaks(text)

EntryLines(cards) == [k \in DOMAIN cards |-> EntryLine(cards[k].text)]

\* The lines of a new section: blank, heading, blank, one line per entry
Block(e) == << <<>>, HeadingMarker \o e.group, <<>> >> \o EntryLines(e.cards)

\* a is b with some lines left out
RECURSIVE IsSubsequence(_, _)
IsSubsequence(a, b) ==
    IF a = <<>> THEN TRUE
    ELSE IF b = <<>> THEN FALSE
    ELSE IF Head(a) = Head(b) THEN IsSubsequence(Tail(a), Tail(b))
    ELSE IsSubsequence(a, Tail(b))

\* b is a with lines of the set `added` put in: nothing of a is missing,
\* changed or out of order
RECURSIVE IsInsertion(_, _, _)
IsInsertion(a, b, added) ==
    IF b = <<>> THEN a = <<>>
    ELSE IF a # <<>> /\ Head(a) = Head(b) THEN IsInsertion(Tail(a), Tail(b), added)
    ELSE Head(b) \in added /\ IsInsertion(a, Tail(b), added)

\* The blocks of the entries es occur in b, in order, each after position from
RECURSIVE BlocksInOrder(_, _, _)
BlocksInOrder(b, from, es) ==
    \/ es = <<>>
    \/ /\ es # <<>>
       /\ \E k \in from..(Len(b) - Len(Block(Head(es)))) :
            /\ SubSeq(b, k + 1, k + Len(Block(Head(es)))) = Block(Head(es))
            /\ BlocksInOrder(b, k + Len(Block(Head(es))), Tail(es))

RECURSIVE ConcatBlocks(_)
ConcatBlocks(es) ==
    IF es = <<>> THEN <<>> ELSE Block(Head(es)) \o ConcatBlocks(Tail(es))

AddedLines(m) ==
    {<<>>} \cup { HeadingMarker \o m[k].group : k \in DOMAIN m }
           \cup UNION { { EntryLine(m[k].cards[c].text) : c \in DOMAIN m[k].cards } :
                        k \in DOMAIN m }

mInLines == Split(Headed(mIn))

mOutLines == Split(file)

mNewGroups == SelectSeq(mMap, LAMBDA e : ~HasHeading(mInLines, e.group))

(***************************************************************************)
(* Claims about the merge                                                  *)
(***************************************************************************)
\* C1: every group of the map that has a heading in the document gets its
\* entries, in entry order, as the lines right after that heading line and
\* before the section's earlier body lines, wherever the section sits.
C1_EntriesAfterHeading ==
    mCount = 1 =>
        LET in == mInLines
            out == mOutLines
        IN \A k \in DOMAIN mMap : \A i \in DOMAIN in :
            LET es == EntryLines(mMap[k].cards) IN
            ( /\ IsHeading(in[i])
              /\ SectionName(in[i]) = mMap[k].group
              /\ \A h \in 1..(i - 1) :
                    ~(IsHeading(in[h]) /\ SectionName(in[h]) = mMap[k].group) )
            => \E j \in i..Len(out) :
                /\ out[j] = in[i]
                /\ IsSubsequence(SubSeq(in, 1, i - 1), SubSeq(out, 1, j - 1))
                /\ j + Len(es) <= Len(out)
                /\ SubSeq(out, j + 1, j + Len(es)) = es
                /\ i < Len(in) =>
                     /\ j + Len(es) < Len(out)
                     /\ out[j + Len(es) + 1] = in[i + 1]

\* C2: starting from an absent or empty document, after any sequence of
\* merges no section name is the name of two heading lines of the document.
C2_HeadingsUnique ==
    mStart \in {Absent, <<>>} =>
        LET lines == Split(file) IN
        \A i, j \in DOMAIN lines :
            (i < j /\ IsHeading(lines[i]) /\ IsHeading(lines[j]))
            => SectionName(lines[i]) # SectionName(lines[j])

\* C3: every group of the map without a heading in the document is appended
\* after all earlier lines, in the map's order, as a blank line, the heading
\* line, a blank line and one line per entry; when no group of the map has a
\* heading, the output is the input followed by exactly these blocks.
C3_NewSectionsAppended ==
    mCount = 1 =>
        LET in == mInLines
            out == mOutLines
            new == SelectSeq(mMap, LAMBDA e : ~HasHeading(in, e.group))
        IN /\ \E k \in Len(in)..Len(out) :
                 /\ IsSubsequence(in, SubSeq(out, 1, k))
                 /\ BlocksInOrder(out, k, new)
           /\ new = mMap => out = in \o ConcatBlocks(mMap)

\* Reached: a merge into a file with lines of its own, one group of the map
\* with a heading there and one without.
C3_Witness ==
    /\ mCount = 1 /\ mIn # Absent /\ Len(mMap) = 2
    /\ Len(mNewGroups) = 1
    /\ \E c \in DOMAIN mNewGroups[1].cards : NL \in
          { mNewGroups[1].cards[c].text[x] : x \in DOMAIN mNewGroups[1].cards[c].text }

\* C4: the merge only inserts lines: the input lines (after the header
\* precondition) all remain, unchanged and in order, and every other line of
\* the output is an entry line, a heading line or a blank line of this merge.
C4_OnlyInserts ==
    mCount = 1 => IsInsertion(mInLines, mOutLines, AddedLines(mMap))

\* Reached: a merge that spliced entries under a heading above an earlier
\* body line and also appended a new section.
C4_Witness ==
    /\ mCount = 1
    /\ \E j \in DOMAIN mOutLines :
          /\ IsHeading(mOutLines[j])
          /\ j + 2 <= Len(mOutLines)
          /\ StartsWith(mOutLines[j + 1], EntryMarker)
          /\ mOutLines[j + 2] = <<"x">>
          /\ \E i \in DOMAIN mInLines :
                mInLines[i] = mOutLines[j] /\ i < Len(mInLines) /\ mInLines[i + 1] = <<"x">>
    /\ Len(mNewGroups) = 1

\* C5: after any sequence of merges the document begins with the header, at
\* most one merge of the sequence put it there, and that merge's input did
\* not begin with it.
C5_HeaderOnce ==
    mCount >= 1 =>
        /\ StartsWith(file, HEADER)
        /\ mPrepends <= 1
        /\ mHeaderAdded => (mIn = Absent \/ ~StartsWith(mIn, HEADER))

\* Reached: several merges into a file that began as text without the header.
C5_Witness ==
    mCount >= 2 /\ mStart = <<"x">> /\ mPrepends = 1 /\ ~mHeaderAdded

(***************************************************************************)
(* Claim about the resolver                                                *)
(***************************************************************************)
\* Closed containment on all four edges, as the specification words it
Contains(g, c) ==
    /\ g.x <= c.x /\ c.x + c.width <= g.x + g.width
    /\ g.y <= c.y /\ c.y + c.height <= g.y + g.height

Area(g) == g.width * g.height

rContaining == { k \in DOMAIN rGroups : Contains(rGroups[k], rNode) }

Reverse(s) == [k \in DOMAIN s |-> s[Len(s) + 1 - k]]

\* C6: the resolver returns the label of the smallest-area group among those
\* containing the candidate, the earliest of them in the list when areas
\* tie, and 'Uncategorized' when none contains it; with two containing
\* groups of different area, both orders of the two give the same label.
C6_SmallestContainingGroup ==
    rLabel # NoLabel =>
        /\ rContaining = {} => rLabel = Uncategorized
        /\ rContaining # {} =>
              \E k \in rContaining :
                 /\ rLabel = rGroups[k].label
                 /\ \A j \in rContaining :
                       \/ Area(rGroups[k]) < Area(rGroups[j])
                       \/ Area(rGroups[k]) = Area(rGroups[j]) /\ k <= j
        /\ ( /\ Len(rGroups) = 2 /\ rContaining = {1, 2}
             /\ Area(rGroups[1]) # Area(rGroups[2]) )
           => findNodeGroup(rNode, Reverse(rGroups)) = rLabel

\* Reached: a candidate inside two groups, the later one smaller and
\* labelled differently, resolved to the later one.
C6_Witness ==
    /\ rLabel # NoLabel
    /\ Len(rGroups) = 2 /\ rContaining = {1, 2}
    /\ Area(rGroups[2]) < Area(rGroups[1])
    /\ rGroups[1].label # rGroups[2].label
    /\ rLabel = rGroups[2].label

(***************************************************************************)
(* Claims about the archive invocation                                     *)
(***************************************************************************)
\* A candidate: a text node with colour '6'
IsCandidateNode(n) == n.type = "text" /\ n.color = "6"

Range(f) == { f[k] : k \in DOMAIN f }

IsPrefix(a, b) == Len(a) <= Len(b) /\ SubSeq(b, 1, Len(a)) = a

OpsOf(i) == [k \in DOMAIN io[i] |-> io[i][k].op]

WriteOps == {"modify", "create", "setViewData"}

Occurrences(x, f) == Cardinality({ k \in DOMAIN f : f[k] = x })

RECURSIVE WithoutCandidates(_)
WithoutCandidates(nodes) ==
    IF nodes = <<>> THEN <<>>
    ELSE IF IsCandidateNode(Head(nodes)) THEN WithoutCandidates(Tail(nodes))
    ELSE <<Head(nodes)>> \o WithoutCandidates(Tail(nodes))

\* C7: an invocation's I/O goes canvas read, document read, document write,
\* canvas write (the document read is left out when there is no file), the
\* canvas is written only after a document write that succeeded, and in
\* every state each candidate gone from the canvas has its entry line in
\* the document.
C7_DocumentBeforeCanvas ==
    /\ \A i \in Calls :
          /\ \/ IsPrefix(OpsOf(i), <<"getViewData", "read", "modify", "setViewData">>)
             \/ IsPrefix(OpsOf(i), <<"getViewData", "create", "setViewData">>)
          /\ \A k \in DOMAIN io[i] :
                io[i][k].op = "setViewData" =>
                    /\ k > 1
                    /\ io[i][k - 1].op \in {"modify", "create"}
                    /\ io[i][k - 1].ok
    /\ \A n \in Range(orig.nodes) :
          (IsCandidateNode(n) /\ n \notin Range(viewData.data.nodes))
          => file # Absent /\ EntryLine(n.text) \in Range(Split(file))

\* Reached: one invocation has archived and removed a candidate, another
\* has failed at an I/O step.
C7_Witness ==
    /\ \E i, j \in Calls : pc[i] = "archived" /\ pc[j] = "ioError"
    /\ \E n \in Range(orig.nodes) :
          IsCandidateNode(n) /\ n \notin Range(viewData.data.nodes)

\* C8: an invocation that finds the canvas text unparsable, no candidate in
\* it, or no parent folder ends in that step, writes neither the document
\* nor the canvas, and does nothing afterwards.
C8_EarlyExitWritesNothing ==
    [][\A i \in Calls :
          /\ ( /\ pc[i] = "idle" /\ pc'[i] # "idle"
               /\ \/ ~viewData.valid
                  \/ \A n \in Range(viewData.data.nodes) : ~IsCandidateNode(n)
                  \/ ~hasParent )
             => /\ pc'[i] \in EarlyExits
                /\ file' = file
                /\ viewData' = viewData
                /\ \A k \in DOMAIN io'[i] : io'[i][k].op \notin WriteOps
          /\ pc[i] \in EarlyExits => (pc'[i] = pc[i] /\ io'[i] = io[i])
      ]_vars

\* Reached: invocations have ended early for want of a parent folder, with
\* candidates on the canvas.
C8_Witness ==
    /\ \E i \in Calls : pc[i] = "noParent"
    /\ \E n \in Range(viewData.data.nodes) : IsCandidateNode(n)
    /\ file # Absent

C10_EntryAddedOnce ==
    (file # Absent /\ \A i \in Calls : pc[i] # "ioError") =>
        \A n \in Range(orig.nodes) :
            IsCandidateNode(n) => Occurrences(EntryLine(n.text), Split(file)) <= 1

====
